---- MODULE Spec2Model ----
(***************************************************************************)
(* Model of the sync screen of src/app/(tabs)/index.tsx.                   *)
(*                                                                         *)
(* The component is a React function component: every handler is a        *)
(* closure over the state values of the render it was created in.  A task  *)
(* (one invocation of initializeApp, requestContactsPermission,            *)
(* selectFolder or performManualSync) therefore carries the values of      *)
(* contactsPermission and selectedFolderUri it captured when it started    *)
(* (fields cp and uri); the setters write the component state below.       *)
(*                                                                         *)
(* JavaScript is single threaded.  A task is either waiting for a platform *)
(* call (a pc ending in _wait) or has a continuation ready to run; user    *)
(* presses, timer callbacks and platform completions are only taken when   *)
(* no continuation is ready.                                               *)
(*                                                                         *)
(* AsyncStorage reads and writes are taken to succeed; the contact read,   *)
(* the file-info lookup, the permission calls, the picker and the HTTP     *)
(* request may each fail.  The clock advances each time it is read.        *)
(***************************************************************************)
EXTENDS Integers, Sequences, FiniteSets, TLC

\* ---- bounds -------------------------------------------------------------
MaxOps == 1

\* ---- values -------------------------------------------------------------
NoFolder == <<>>
NoTime == 0
Handles == { <<"m", "/", "f">>, <<"d", "/">> }
StoredFolders == { NoFolder, <<"m", "/", "f">> }
ContactLists == { <<>>, <<"c1">> }
FileInfos == { [exists |-> FALSE, size |-> 0, modificationTime |-> 0],
               [exists |-> TRUE, size |-> 0, modificationTime |-> 5] }
PermissionStatuses == { "granted", "denied", "undetermined" }
STORAGE_KEYS == { "contacts_last_sync", "folder_uri", "files_last_sync" }

UserTasks == 1 .. MaxOps
Tasks == 0 .. MaxOps

VARIABLES
    contactsPermission, \* useState(null): "null" or a permission status
    selectedFolderUri,  \* useState(null): NoFolder or a handle
    contacts,           \* useState([])
    files,              \* useState([])
    isLoading,          \* useState(false)
    lastSyncTime,       \* useState(null): NoTime or a time
    syncStatus,         \* useState('')
    storage,            \* AsyncStorage: key -> value
    timers,             \* pending setTimeout callbacks, in firing order
    now,                \* the clock: the value the next new Date() yields
    started,            \* number of user operations started
    tasks               \* the invocations in flight or finished

vars == << contactsPermission, selectedFolderUri, contacts, files, isLoading,
           lastSyncTime, syncStatus, storage, timers, now, started, tasks >>

ui == << contactsPermission, selectedFolderUri, contacts, files, isLoading,
         lastSyncTime, syncStatus >>

\* ---- tasks --------------------------------------------------------------
ReadyPcs == { "done", "ia_start", "ia_afterCheck", "ia_afterFolder", "ia_afterLast",
              "ia_finally", "rcp_afterSync", "sf_afterSync",
              "sc_start", "sc_afterSend", "sfl_start", "sfl_afterList",
              "sfl_afterSend", "pas_start", "pas_afterContacts",
              "pas_afterFiles", "pms_afterAuto" }

NewTask(op, pc, cp, uri) ==
    [ op |-> op, pc |-> pc, stack |-> <<>>, cp |-> cp, uri |-> uri,
      data |-> <<>>, fileList |-> <<>>, stamp |-> NoTime,
      folderUri |-> NoFolder, postedContacts |-> <<>>, postedFiles |-> <<>>,
      log |-> <<>> ]

IdleTask == NewTask("none", "idle", "null", NoFolder)

\* a finished invocation: its locals are dropped
Retired(tk) == NewTask(tk.op, "retired", "null", NoFolder)

\* an async function returns: its awaiting caller becomes ready
Return(tk) ==
    IF tk.stack = <<>>
    THEN [tk EXCEPT !.pc = "done"]
    ELSE [tk EXCEPT !.pc = Head(tk.stack), !.stack = Tail(tk.stack)]

\* await callee(): run the callee, resume the caller at cont
Call(tk, entry, cont) ==
    [tk EXCEPT !.pc = entry, !.stack = <<cont>> \o tk.stack]

Log(tk, e) == [tk EXCEPT !.log = Append(@, e)]

NoContinuationReady == \A t \in Tasks : tasks[t].pc \notin ReadyPcs

Occurs(tk, e) == \E i \in 1 .. Len(tk.log) : tk.log[i] = e

\* ---- initial state ------------------------------------------------------
\* First render: the useState initial values; the store holds what an
\* earlier run of the app left in it.
Init ==
    /\ contactsPermission = "null"
    /\ selectedFolderUri = NoFolder
    /\ contacts = <<>>
    /\ files = <<>>
    /\ isLoading = FALSE
    /\ lastSyncTime = NoTime
    /\ syncStatus = ""
    /\ \E f \in StoredFolders :
          storage = [ k \in STORAGE_KEYS |->
                        IF k = "folder_uri" THEN f ELSE NoTime ]
    /\ timers = <<>>
    /\ now = 1
    /\ started = 0
    /\ tasks = [ t \in Tasks |->
                   IF t = 0
                   THEN NewTask("initializeApp", "ia_start", "null", NoFolder)
                   ELSE IdleTask ]

\* ---- initializeApp ------------------------------------------------------
initializeApp(t) ==
    /\ tasks[t].pc = "ia_start"
    /\ isLoading' = TRUE
    /\ tasks' = [tasks EXCEPT ![t] = Call(@, "ccp_wait", "ia_afterCheck")]
    /\ UNCHANGED << contactsPermission, selectedFolderUri, contacts, files,
                    lastSyncTime, syncStatus, storage, timers, now, started >>

checkContactsPermission(t) ==
    /\ tasks[t].pc = "ccp_wait"
    /\ NoContinuationReady
    /\ \/ \E status \in PermissionStatuses :
             contactsPermission' = status
       \/ contactsPermission' = contactsPermission   \* getPermissionsAsync threw
    /\ tasks' = [tasks EXCEPT ![t] = Return(@)]
    /\ UNCHANGED << selectedFolderUri, contacts, files, isLoading,
                    lastSyncTime, syncStatus, storage, timers, now, started >>

initializeAppAfterCheck(t) ==
    /\ tasks[t].pc = "ia_afterCheck"
    /\ tasks' = [tasks EXCEPT ![t] = Call(@, "lsf_wait", "ia_afterFolder")]
    /\ UNCHANGED << ui, storage, timers, now, started >>

loadStoredFolderUri(t) ==
    /\ tasks[t].pc = "lsf_wait"
    /\ NoContinuationReady
    /\ selectedFolderUri' =
          IF storage["folder_uri"] # NoFolder
          THEN storage["folder_uri"] ELSE selectedFolderUri
    /\ tasks' = [tasks EXCEPT ![t] = Return(@)]
    /\ UNCHANGED << contactsPermission, contacts, files, isLoading,
                    lastSyncTime, syncStatus, storage, timers, now, started >>

initializeAppAfterFolder(t) ==
    /\ tasks[t].pc = "ia_afterFolder"
    /\ tasks' = [tasks EXCEPT ![t] = Call(@, "lls_wait", "ia_afterLast")]
    /\ UNCHANGED << ui, storage, timers, now, started >>

loadLastSyncTime(t) ==
    /\ tasks[t].pc = "lls_wait"
    /\ NoContinuationReady
    /\ lastSyncTime' =
          IF storage["contacts_last_sync"] # NoTime
          THEN storage["contacts_last_sync"] ELSE lastSyncTime
    /\ tasks' = [tasks EXCEPT ![t] = Return(@)]
    /\ UNCHANGED << contactsPermission, selectedFolderUri, contacts, files,
                    isLoading, syncStatus, storage, timers, now, started >>

\* line 49: the test reads the values captured by the closure
AutoSyncWanted(cp, uri) == cp = "granted" /\ uri # NoFolder

initializeAppAfterLast(t) ==
    /\ tasks[t].pc = "ia_afterLast"
    /\ tasks' = [tasks EXCEPT ![t] =
                   IF AutoSyncWanted(@.cp, @.uri)
                   THEN Call(@, "pas_start", "ia_finally")
                   ELSE [@ EXCEPT !.pc = "ia_finally"]]
    /\ UNCHANGED << ui, storage, timers, now, started >>

initializeAppFinally(t) ==
    /\ tasks[t].pc = "ia_finally"
    /\ isLoading' = FALSE
    /\ tasks' = [tasks EXCEPT ![t] = Return(@)]
    /\ UNCHANGED << contactsPermission, selectedFolderUri, contacts, files,
                    lastSyncTime, syncStatus, storage, timers, now, started >>

\* ---- syncContacts -------------------------------------------------------
\* variant: only an explicit denial is rejected
ContactsPermitted_denyOnly(cp) == cp # "denied"

\* line 136: the guard reads the permission captured by the closure
ContactsPermitted(cp) == cp = "granted"

\* variant: the catch swallows the error without telling the user
syncContactsCatch_silent(t, tk) ==
    /\ syncStatus' = "Contacts sync failed"
    /\ timers' = Append(timers, "Contacts sync failed")
    /\ isLoading' = FALSE
    /\ tasks' = [tasks EXCEPT ![t] = Return(tk)]
    /\ UNCHANGED << contactsPermission, selectedFolderUri, contacts, files,
                    lastSyncTime, storage, now, started >>

\* variant: the catch rethrows, so the caller's frame is unwound as well
syncContactsCatch_rethrow(t, tk) ==
    /\ syncStatus' = "Contacts sync failed"
    /\ timers' = Append(timers, "Contacts sync failed")
    /\ isLoading' = FALSE
    /\ tasks' = [tasks EXCEPT ![t] =
                   Return([Log(tk, "alert:Sync Error: contacts") EXCEPT
                              !.stack = Tail(@)])]
    /\ UNCHANGED << contactsPermission, selectedFolderUri, contacts, files,
                    lastSyncTime, storage, now, started >>

\* lines 167-174: catch and finally of syncContacts; tk is the task in the
\* frame of syncContacts
syncContactsCatch(t, tk) ==
    /\ syncStatus' = "Contacts sync failed"
    /\ timers' = Append(timers, "Contacts sync failed")
    /\ isLoading' = FALSE
    /\ tasks' = [tasks EXCEPT ![t] = Return(Log(tk, "alert:Sync Error: contacts"))]
    /\ UNCHANGED << contactsPermission, selectedFolderUri, contacts, files,
                    lastSyncTime, storage, now, started >>

syncContacts(t) ==
    /\ tasks[t].pc = "sc_start"
    /\ IF ContactsPermitted(tasks[t].cp)
       THEN /\ isLoading' = TRUE
            /\ syncStatus' = "Syncing contacts..."
            /\ tasks' = [tasks EXCEPT ![t] =
                           [Log(@, "getContactsAsync") EXCEPT !.pc = "sc_read_wait"]]
       ELSE /\ tasks' = [tasks EXCEPT ![t] =
                           Return(Log(@, "alert:Permission Required"))]
            /\ UNCHANGED << isLoading, syncStatus >>
    /\ UNCHANGED << contactsPermission, selectedFolderUri, contacts, files,
                    lastSyncTime, storage, timers, now, started >>

\* variant: the POST carries the contacts state of the closure, not the
\* list just read
syncContactsRead_postsState(t) ==
    /\ tasks[t].pc = "sc_read_wait"
    /\ NoContinuationReady
    /\ \/ \E data \in ContactLists :
             /\ contacts' = data
             /\ tasks' = [tasks EXCEPT ![t] =
                   Call([Log(@, "POST /sync-contacts") EXCEPT
                            !.data = data,
                            !.postedContacts = Append(@, contacts)],
                        "scb_fetch_wait", "sc_afterSend")]
             /\ UNCHANGED << contactsPermission, selectedFolderUri, files,
                             isLoading, lastSyncTime, syncStatus, storage,
                             timers, now, started >>
       \/ syncContactsCatch(t, Log(tasks[t], "getContactsAsync threw"))

\* lines 145-157: the read completes; on success the list is stored and
\* sendContactsToBackend issues its POST
syncContactsRead(t) ==
    /\ tasks[t].pc = "sc_read_wait"
    /\ NoContinuationReady
    /\ \/ \E data \in ContactLists :
             /\ contacts' = data
             /\ tasks' = [tasks EXCEPT ![t] =
                   Call([Log(@, "POST /sync-contacts") EXCEPT
                            !.data = data,
                            !.postedContacts = Append(@, data)],
                        "scb_fetch_wait", "sc_afterSend")]
             /\ UNCHANGED << contactsPermission, selectedFolderUri, files,
                             isLoading, lastSyncTime, syncStatus, storage,
                             timers, now, started >>
       \/ syncContactsCatch(t, Log(tasks[t], "getContactsAsync threw"))

\* variant: the catch of sendContactsToBackend rethrows
ContactsSendRethrows_propagate(outcome) == outcome # "contacts:fetch:ok"

\* lines 246-257: a non-2xx response throws inside the try; the catch of
\* sendContactsToBackend logs and does not rethrow
ContactsSendRethrows(outcome) == FALSE

sendContactsToBackend(t) ==
    /\ tasks[t].pc = "scb_fetch_wait"
    /\ NoContinuationReady
    /\ \E outcome \in { "contacts:fetch:ok", "contacts:fetch:non2xx", "contacts:fetch:throw" } :
          IF outcome = "contacts:fetch:ok"
          THEN /\ tasks' = [tasks EXCEPT ![t] =
                              [Log(@, outcome) EXCEPT !.pc = "scb_json_wait"]]
               /\ UNCHANGED << ui, storage, timers, now, started >>
          ELSE IF ContactsSendRethrows(outcome)
          THEN syncContactsCatch(t, [Log(tasks[t], outcome) EXCEPT
                                        !.stack = Tail(@)])
          ELSE /\ tasks' = [tasks EXCEPT ![t] = Return(Log(@, outcome))]
               /\ UNCHANGED << ui, storage, timers, now, started >>

\* line 250: response.json() resolves or rejects; either way the function
\* returns normally
sendContactsToBackendJson(t) ==
    /\ tasks[t].pc = "scb_json_wait"
    /\ NoContinuationReady
    /\ \E outcome \in { "contacts:json:ok", "contacts:json:throw" } :
          tasks' = [tasks EXCEPT ![t] = Return(Log(@, outcome))]
    /\ UNCHANGED << ui, storage, timers, now, started >>

\* lines 160-161: the timestamp is taken, then the store is written
syncContactsAfterSend(t) ==
    /\ tasks[t].pc = "sc_afterSend"
    /\ tasks' = [tasks EXCEPT ![t] =
                   [@ EXCEPT !.stamp = now, !.pc = "sc_store_wait"]]
    /\ now' = now + 1
    /\ UNCHANGED << ui, storage, timers, started >>

\* lines 161-165 and the finally
syncContactsStore(t) ==
    /\ tasks[t].pc = "sc_store_wait"
    /\ NoContinuationReady
    /\ storage' = [storage EXCEPT !["contacts_last_sync"] = tasks[t].stamp]
    /\ lastSyncTime' = tasks[t].stamp
    /\ syncStatus' = "Contacts synced successfully!"
    /\ timers' = Append(timers, "Contacts synced successfully!")
    /\ isLoading' = FALSE
    /\ tasks' = [tasks EXCEPT ![t] =
                   Return(Log(@, "write:contacts_last_sync"))]
    /\ UNCHANGED << contactsPermission, selectedFolderUri, contacts,
                    files, now, started >>

\* ---- syncFiles ----------------------------------------------------------
\* directoryUri.split('/').pop()
RECURSIVE LastSegment(_)
LastSegment(s) ==
    IF s = <<>> THEN <<>>
    ELSE IF s[Len(s)] = "/" THEN <<>>
    ELSE Append(LastSegment(SubSeq(s, 1, Len(s) - 1)), s[Len(s)])

\* variant: the whole handle is used as the name
getFilesFromDirectory_wholeName(directoryUri, info, threw, clock) ==
    IF threw THEN <<>>
    ELSE IF info.exists
    THEN << [ uri |-> directoryUri,
              name |-> directoryUri,
              size |-> info.size,
              modificationTime |->
                 IF info.modificationTime = 0 THEN clock
                 ELSE info.modificationTime ] >>
    ELSE <<>>

\* lines 211-231; info is the result of getInfoAsync, threw whether it threw
getFilesFromDirectory(directoryUri, info, threw, clock) ==
    IF threw THEN <<>>
    ELSE IF info.exists
    THEN << [ uri |-> directoryUri,
              name |-> LastSegment(directoryUri),
              size |-> info.size,
              modificationTime |->
                 IF info.modificationTime = 0 THEN clock
                 ELSE info.modificationTime ] >>
    ELSE <<>>

\* line 222: Date.now() is evaluated only when modificationTime is missing
ReadsClock(info, threw) == ~threw /\ info.exists /\ info.modificationTime = 0

\* variant: the guard is missing
FolderSelected_always(uri) == TRUE

\* line 178: the guard reads the folder captured by the closure
FolderSelected(uri) == uri # NoFolder

\* lines 201-208: catch and finally of syncFiles
syncFilesCatch(t, tk) ==
    /\ syncStatus' = "Files sync failed"
    /\ timers' = Append(timers, "Files sync failed")
    /\ isLoading' = FALSE
    /\ tasks' = [tasks EXCEPT ![t] = Return(Log(tk, "alert:Sync Error: files"))]
    /\ UNCHANGED << contactsPermission, selectedFolderUri, contacts, files,
                    lastSyncTime, storage, now, started >>

syncFiles(t) ==
    /\ tasks[t].pc = "sfl_start"
    /\ IF FolderSelected(tasks[t].uri)
       THEN /\ isLoading' = TRUE
            /\ syncStatus' = "Syncing files..."
            /\ tasks' = [tasks EXCEPT ![t] =
                           Call(Log(@, "getInfoAsync"), "gfd_wait", "sfl_afterList")]
       ELSE /\ tasks' = [tasks EXCEPT ![t] =
                           Return(Log(@, "alert:Folder Required"))]
            /\ UNCHANGED << isLoading, syncStatus >>
    /\ UNCHANGED << contactsPermission, selectedFolderUri, contacts, files,
                    lastSyncTime, storage, timers, now, started >>

\* the file-info lookup completes inside getFilesFromDirectory
getFilesFromDirectoryDone(t) ==
    /\ tasks[t].pc = "gfd_wait"
    /\ NoContinuationReady
    /\ \E info \in FileInfos, threw \in BOOLEAN :
          /\ tasks' = [tasks EXCEPT ![t] =
             Return([Log(@, IF threw THEN "getInfoAsync threw"
                            ELSE IF info.exists THEN "getInfoAsync exists"
                            ELSE "getInfoAsync missing") EXCEPT !.fileList =
                 getFilesFromDirectory(tasks[t].uri, info, threw, now)])]
          /\ now' = IF ReadsClock(info, threw) THEN now + 1 ELSE now
    /\ UNCHANGED << ui, storage, timers, started >>

\* lines 189-192
syncFilesAfterList(t) ==
    /\ tasks[t].pc = "sfl_afterList"
    /\ files' = tasks[t].fileList
    /\ tasks' = [tasks EXCEPT ![t] =
          Call([Log(@, "POST /sync-files") EXCEPT
                   !.postedFiles = Append(@, tasks[t].fileList)],
               "sfb_fetch_wait", "sfl_afterSend")]
    /\ UNCHANGED << contactsPermission, selectedFolderUri, contacts, isLoading,
                    lastSyncTime, syncStatus, storage, timers, now, started >>

\* lines 273-284: the catch of sendFilesToBackend logs and does not rethrow
FilesSendRethrows(outcome) == FALSE

sendFilesToBackend(t) ==
    /\ tasks[t].pc = "sfb_fetch_wait"
    /\ NoContinuationReady
    /\ \E outcome \in { "files:fetch:ok", "files:fetch:non2xx", "files:fetch:throw" } :
          IF outcome = "files:fetch:ok"
          THEN /\ tasks' = [tasks EXCEPT ![t] =
                              [Log(@, outcome) EXCEPT !.pc = "sfb_json_wait"]]
               /\ UNCHANGED << ui, storage, timers, now, started >>
          ELSE IF FilesSendRethrows(outcome)
          THEN syncFilesCatch(t, [Log(tasks[t], outcome) EXCEPT
                                     !.stack = Tail(@)])
          ELSE /\ tasks' = [tasks EXCEPT ![t] = Return(Log(@, outcome))]
               /\ UNCHANGED << ui, storage, timers, now, started >>

sendFilesToBackendJson(t) ==
    /\ tasks[t].pc = "sfb_json_wait"
    /\ NoContinuationReady
    /\ \E outcome \in { "files:json:ok", "files:json:throw" } :
          tasks' = [tasks EXCEPT ![t] = Return(Log(@, outcome))]
    /\ UNCHANGED << ui, storage, timers, now, started >>

syncFilesAfterSend(t) ==
    /\ tasks[t].pc = "sfl_afterSend"
    /\ tasks' = [tasks EXCEPT ![t] =
                   [@ EXCEPT !.stamp = now, !.pc = "sfl_store_wait"]]
    /\ now' = now + 1
    /\ UNCHANGED << ui, storage, timers, started >>

\* variant: the files pass writes the contacts key
syncFilesStore_wrongKey(t) ==
    /\ tasks[t].pc = "sfl_store_wait"
    /\ NoContinuationReady
    /\ storage' = [storage EXCEPT !["contacts_last_sync"] = tasks[t].stamp]
    /\ syncStatus' = "Files synced successfully!"
    /\ timers' = Append(timers, "Files synced successfully!")
    /\ isLoading' = FALSE
    /\ tasks' = [tasks EXCEPT ![t] =
                   Return(Log(@, "write:files_last_sync"))]
    /\ UNCHANGED << contactsPermission, selectedFolderUri, contacts,
                    files, lastSyncTime, now, started >>

syncFilesStore(t) ==
    /\ tasks[t].pc = "sfl_store_wait"
    /\ NoContinuationReady
    /\ storage' = [storage EXCEPT !["files_last_sync"] = tasks[t].stamp]
    /\ syncStatus' = "Files synced successfully!"
    /\ timers' = Append(timers, "Files synced successfully!")
    /\ isLoading' = FALSE
    /\ tasks' = [tasks EXCEPT ![t] =
                   Return(Log(@, "write:files_last_sync"))]
    /\ UNCHANGED << contactsPermission, selectedFolderUri, contacts,
                    files, lastSyncTime, now, started >>

\* ---- performAutoSync ----------------------------------------------------
\* variant: the contacts sync is called unconditionally
AutoSyncsContacts_always(cp) == TRUE

\* line 289
AutoSyncsContacts(cp) == cp = "granted"

\* variant: the files sync is called unconditionally
AutoSyncsFiles_always(uri) == TRUE

\* line 293
AutoSyncsFiles(uri) == uri # NoFolder

\* variant: the files sync is run before the contacts sync
performAutoSync_filesFirst(t) ==
    /\ tasks[t].pc = "pas_start"
    /\ tasks' = [tasks EXCEPT ![t] =
                   IF AutoSyncsFiles(tasks[t].uri)
                   THEN Call(Call(@, "sc_start", "pas_afterContacts"),
                             "sfl_start", "sc_start")
                   ELSE IF AutoSyncsContacts(tasks[t].cp)
                   THEN Call(@, "sc_start", "pas_afterContacts")
                   ELSE [@ EXCEPT !.pc = "pas_afterContacts"]]
    /\ UNCHANGED << ui, storage, timers, now, started >>

performAutoSync(t) ==
    /\ tasks[t].pc = "pas_start"
    /\ tasks' = [tasks EXCEPT ![t] =
                   IF AutoSyncsContacts(tasks[t].cp)
                   THEN Call(@, "sc_start", "pas_afterContacts")
                   ELSE [@ EXCEPT !.pc = "pas_afterContacts"]]
    /\ UNCHANGED << ui, storage, timers, now, started >>

performAutoSyncAfterContacts(t) ==
    /\ tasks[t].pc = "pas_afterContacts"
    /\ tasks' = [tasks EXCEPT ![t] =
                   IF AutoSyncsFiles(tasks[t].uri)
                   THEN Call(@, "sfl_start", "pas_afterFiles")
                   ELSE [@ EXCEPT !.pc = "pas_afterFiles"]]
    /\ UNCHANGED << ui, storage, timers, now, started >>

performAutoSyncAfterFiles(t) ==
    /\ tasks[t].pc = "pas_afterFiles"
    /\ tasks' = [tasks EXCEPT ![t] = Return(@)]
    /\ UNCHANGED << ui, storage, timers, now, started >>

\* ---- user operations ----------------------------------------------------
\* a press runs the handler of the current render: it captures the current
\* contactsPermission and selectedFolderUri
CanPress(t) ==
    /\ NoContinuationReady
    /\ ~isLoading                      \* disabled={isLoading}
    /\ started < MaxOps
    /\ t = started + 1

\* lines 301-306, pressed on the button of lines 418-422
performManualSync(t) ==
    /\ CanPress(t)
    /\ isLoading' = TRUE
    /\ syncStatus' = "Manual sync in progress..."
    /\ started' = started + 1
    /\ tasks' = [tasks EXCEPT ![t] =
          Call(NewTask("performManualSync", "pms_start",
                       contactsPermission, selectedFolderUri),
               "pas_start", "pms_afterAuto")]
    /\ UNCHANGED << contactsPermission, selectedFolderUri, contacts, files,
                    lastSyncTime, storage, timers, now >>

\* variant: the finally that clears the loading flag is missing
performManualSyncAfterAuto_noFinally(t) ==
    /\ tasks[t].pc = "pms_afterAuto"
    /\ syncStatus' = "Manual sync completed!"
    /\ timers' = Append(timers, "Manual sync completed!")
    /\ tasks' = [tasks EXCEPT ![t] = Return(@)]
    /\ UNCHANGED << contactsPermission, selectedFolderUri, contacts, files,
                    isLoading, lastSyncTime, storage, now, started >>

\* lines 307-308 and the finally
performManualSyncAfterAuto(t) ==
    /\ tasks[t].pc = "pms_afterAuto"
    /\ syncStatus' = "Manual sync completed!"
    /\ timers' = Append(timers, "Manual sync completed!")
    /\ isLoading' = FALSE
    /\ tasks' = [tasks EXCEPT ![t] = Return(@)]
    /\ UNCHANGED << contactsPermission, selectedFolderUri, contacts, files,
                    lastSyncTime, storage, now, started >>

\* lines 367-374: the button is rendered while permission is not granted
requestContactsPermission(t) ==
    /\ CanPress(t)
    /\ contactsPermission # "granted"
    /\ started' = started + 1
    /\ tasks' = [tasks EXCEPT ![t] =
          NewTask("requestContactsPermission", "rcp_wait",
                  contactsPermission, selectedFolderUri)]
    /\ UNCHANGED << ui, storage, timers, now >>

\* lines 73-88: requestPermissionsAsync completes
requestContactsPermissionDone(t) ==
    /\ tasks[t].pc = "rcp_wait"
    /\ NoContinuationReady
    /\ \/ \E status \in PermissionStatuses :
             /\ contactsPermission' = status
             /\ tasks' = [tasks EXCEPT ![t] =
                   IF status = "granted"
                   THEN Call(Log(Log(@, "status:granted"), "alert:Success"),
                             "sc_start", "rcp_afterSync")
                   ELSE Return(Log(Log(@, "status:other"),
                                   "alert:Permission Denied"))]
       \/ /\ tasks' = [tasks EXCEPT ![t] = Return(Log(@, "alert:Error"))]
          /\ UNCHANGED contactsPermission
    /\ UNCHANGED << selectedFolderUri, contacts, files, isLoading,
                    lastSyncTime, syncStatus, storage, timers, now, started >>

requestContactsPermissionAfterSync(t) ==
    /\ tasks[t].pc = "rcp_afterSync"
    /\ tasks' = [tasks EXCEPT ![t] = Return(@)]
    /\ UNCHANGED << ui, storage, timers, now, started >>

\* lines 402-410
selectFolder(t) ==
    /\ CanPress(t)
    /\ started' = started + 1
    /\ tasks' = [tasks EXCEPT ![t] =
          NewTask("selectFolder", "sf_wait",
                  contactsPermission, selectedFolderUri)]
    /\ UNCHANGED << ui, storage, timers, now >>

\* lines 93-102: the picker completes
selectFolderPicked(t) ==
    /\ tasks[t].pc = "sf_wait"
    /\ NoContinuationReady
    /\ \/ \E folderUri \in Handles :
             /\ selectedFolderUri' = folderUri
             /\ tasks' = [tasks EXCEPT ![t] =
                   [Log(@, "picked") EXCEPT !.folderUri = folderUri,
                                            !.pc = "sf_store_wait"]]
       \/ /\ tasks' = [tasks EXCEPT ![t] = Return(Log(@, "canceled"))]
          /\ UNCHANGED selectedFolderUri
       \/ /\ tasks' = [tasks EXCEPT ![t] = Return(Log(@, "alert:Error"))]
          /\ UNCHANGED selectedFolderUri
    /\ UNCHANGED << contactsPermission, contacts, files, isLoading,
                    lastSyncTime, syncStatus, storage, timers, now, started >>

\* lines 102-105: the handle is persisted, then syncFiles is called
selectFolderStored(t) ==
    /\ tasks[t].pc = "sf_store_wait"
    /\ NoContinuationReady
    /\ storage' = [storage EXCEPT !["folder_uri"] = tasks[t].folderUri]
    /\ tasks' = [tasks EXCEPT ![t] =
          Call(Log(Log(@, "write:folder_uri"), "alert:Success"),
               "sfl_start", "sf_afterSync")]
    /\ UNCHANGED << ui, timers, now, started >>

selectFolderAfterSync(t) ==
    /\ tasks[t].pc = "sf_afterSync"
    /\ tasks' = [tasks EXCEPT ![t] = Return(@)]
    /\ UNCHANGED << ui, storage, timers, now, started >>

\* ---- environment --------------------------------------------------------
\* setTimeout(() => setSyncStatus(''), 3000): equal delays fire in order
TimerFire ==
    /\ NoContinuationReady
    /\ timers # <<>>
    /\ syncStatus' = ""
    /\ timers' = Tail(timers)
    /\ UNCHANGED << contactsPermission, selectedFolderUri, contacts, files,
                    isLoading, lastSyncTime, storage, now, started, tasks >>

\* a settled invocation is forgotten
Retire(t) ==
    /\ tasks[t].pc = "done"
    /\ tasks' = [tasks EXCEPT ![t] = Retired(@)]
    /\ UNCHANGED << ui, storage, timers, now, started >>

Next ==
    \/ \E t \in Tasks : initializeApp(t)
    \/ \E t \in Tasks : checkContactsPermission(t)
    \/ \E t \in Tasks : initializeAppAfterCheck(t)
    \/ \E t \in Tasks : loadStoredFolderUri(t)
    \/ \E t \in Tasks : initializeAppAfterFolder(t)
    \/ \E t \in Tasks : loadLastSyncTime(t)
    \/ \E t \in Tasks : initializeAppAfterLast(t)
    \/ \E t \in Tasks : initializeAppFinally(t)
    \/ \E t \in Tasks : syncContacts(t)
    \/ \E t \in Tasks : syncContactsRead(t)
    \/ \E t \in Tasks : sendContactsToBackend(t)
    \/ \E t \in Tasks : sendContactsToBackendJson(t)
    \/ \E t \in Tasks : syncContactsAfterSend(t)
    \/ \E t \in Tasks : syncContactsStore(t)
    \/ \E t \in Tasks : syncFiles(t)
    \/ \E t \in Tasks : getFilesFromDirectoryDone(t)
    \/ \E t \in Tasks : syncFilesAfterList(t)
    \/ \E t \in Tasks : sendFilesToBackend(t)
    \/ \E t \in Tasks : sendFilesToBackendJson(t)
    \/ \E t \in Tasks : syncFilesAfterSend(t)
    \/ \E t \in Tasks : syncFilesStore(t)
    \/ \E t \in Tasks : performAutoSync(t)
    \/ \E t \in Tasks : performAutoSyncAfterContacts(t)
    \/ \E t \in Tasks : performAutoSyncAfterFiles(t)
    \/ \E t \in UserTasks : performManualSync(t)
    \/ \E t \in Tasks : performManualSyncAfterAuto(t)
    \/ \E t \in UserTasks : requestContactsPermission(t)
    \/ \E t \in Tasks : requestContactsPermissionDone(t)
    \/ \E t \in Tasks : requestContactsPermissionAfterSync(t)
    \/ \E t \in UserTasks : selectFolder(t)
    \/ \E t \in Tasks : selectFolderPicked(t)
    \/ \E t \in Tasks : selectFolderStored(t)
    \/ \E t \in Tasks : selectFolderAfterSync(t)
    \/ TimerFire
    \/ \E t \in Tasks : Retire(t)

Spec == Init /\ [][Next]_vars

\* The screen after launch has finished with a stored folder, once Select
\* Folder has been pressed and the picker is open (lines 91-97): the
\* selectFolder invocation holds the values of that render.
InitPickerOpen ==
    /\ contactsPermission \in PermissionStatuses
    /\ selectedFolderUri \in StoredFolders \ {NoFolder}
    /\ contacts = <<>>
    /\ files = <<>>
    /\ isLoading = FALSE
    /\ lastSyncTime = NoTime
    /\ syncStatus = ""
    /\ storage = [ k \in STORAGE_KEYS |->
                     IF k = "folder_uri" THEN selectedFolderUri ELSE NoTime ]
    /\ timers = <<>>
    /\ now = 1
    /\ started = 0
    /\ tasks = [ t \in Tasks |->
                   IF t = 0
                   THEN NewTask("selectFolder", "sf_wait",
                                contactsPermission, selectedFolderUri)
                   ELSE IdleTask ]

\* launch, or the screen with the picker already open
SpecOverlap == (Init \/ InitPickerOpen) /\ [][Next]_vars

\* every platform call eventually returns or throws, and the event loop runs
\* every ready continuation and every due timer
FairSpec == Init /\ [][Next]_vars /\ WF_vars(Next)

TypeOK ==
    /\ contactsPermission \in {"null"} \cup PermissionStatuses
    /\ selectedFolderUri \in {NoFolder} \cup Handles
    /\ contacts \in ContactLists
    /\ isLoading \in BOOLEAN
    /\ now \in Nat
    /\ started \in 0 .. MaxOps

\* ---- properties ---------------------------------------------------------
Last(q) == q[Len(q)]

ManualSyncInFlight(tk) ==
    tk.op = "performManualSync" /\ tk.pc \notin { "done", "retired" }

\* C1: a call of syncContacts that sees any permission other than granted
\* reads no contacts, sends no request, leaves contacts_last_sync, the
\* displayed sync time and the contact list unchanged, signals
\* "Permission Required" and returns.
C1_PermissionRequired ==
    [][ \A t \in Tasks :
          (tasks[t].pc = "sc_start" /\ tasks[t].cp # "granted") =>
             /\ storage' = storage
             /\ contacts' = contacts
             /\ lastSyncTime' = lastSyncTime
             /\ tasks'[t].log = Append(tasks[t].log, "alert:Permission Required")
             /\ tasks'[t].postedContacts = tasks[t].postedContacts
             /\ tasks'[t].pc = Head(tasks[t].stack) ]_vars

C1_Witness ==
    \E t \in Tasks :
       /\ tasks[t].cp # "granted"
       /\ tasks[t].log # <<>>
       /\ Last(tasks[t].log) = "alert:Permission Required"

\* C2: a call of syncFiles that sees no folder handle looks up no file info,
\* sends no request, leaves files_last_sync and the file list unchanged,
\* signals "Folder Required" and returns.
C2_FolderRequired ==
    [][ \A t \in Tasks :
          (tasks[t].pc = "sfl_start" /\ tasks[t].uri = NoFolder) =>
             /\ storage' = storage
             /\ files' = files
             /\ tasks'[t].log = Append(tasks[t].log, "alert:Folder Required")
             /\ tasks'[t].postedFiles = tasks[t].postedFiles
             /\ tasks'[t].pc = Head(tasks[t].stack) ]_vars

C2_Witness ==
    \E t \in Tasks :
       /\ tasks[t].uri = NoFolder
       /\ tasks[t].log # <<>>
       /\ Last(tasks[t].log) = "alert:Folder Required"

\* C3: when a sync pass that issued its POST returns, whatever the outcome
\* of the POST (2xx, non-2xx, thrown), the domain's timestamp key holds the
\* time taken by the pass, the success status is shown, the loading flag is
\* cleared and the pass raised no alert.
C3_RemoteFailureIgnored ==
    \A t \in Tasks :
       /\ ( /\ tasks[t].pc \in { "pas_afterContacts", "rcp_afterSync" }
            /\ Occurs(tasks[t], "POST /sync-contacts") ) =>
              /\ tasks[t].stamp # NoTime
              /\ storage["contacts_last_sync"] = tasks[t].stamp
              /\ lastSyncTime = tasks[t].stamp
              /\ syncStatus = "Contacts synced successfully!"
              /\ ~isLoading
              /\ Last(tasks[t].log) = "write:contacts_last_sync"
              /\ ~Occurs(tasks[t], "alert:Sync Error: contacts")
       /\ ( /\ tasks[t].pc \in { "pas_afterFiles", "sf_afterSync" }
            /\ Occurs(tasks[t], "POST /sync-files") ) =>
              /\ tasks[t].stamp # NoTime
              /\ storage["files_last_sync"] = tasks[t].stamp
              /\ syncStatus = "Files synced successfully!"
              /\ ~isLoading
              /\ Last(tasks[t].log) = "write:files_last_sync"
              /\ ~Occurs(tasks[t], "alert:Sync Error: files")

C3_Witness ==
    \E t \in Tasks :
       /\ tasks[t].pc = "pas_afterContacts"
       /\ Occurs(tasks[t], "contacts:fetch:non2xx")
       /\ storage["contacts_last_sync"] = tasks[t].stamp

\* C4: when the contact read throws, contacts_last_sync, the displayed sync
\* time and the contact list are unchanged, no request is issued, a
\* "Sync Error" alert is raised, the status is "Contacts sync failed" and
\* syncContacts returns.
C4_ContactReadFailure ==
    [][ \A t \in Tasks :
          ( /\ tasks[t].pc = "sc_read_wait"
            /\ Occurs(tasks'[t], "getContactsAsync threw") ) =>
             /\ storage' = storage
             /\ contacts' = contacts
             /\ lastSyncTime' = lastSyncTime
             /\ tasks'[t].postedContacts = tasks[t].postedContacts
             /\ tasks'[t].log = tasks[t].log \o
                   << "getContactsAsync threw", "alert:Sync Error: contacts" >>
             /\ syncStatus' = "Contacts sync failed"
             /\ tasks'[t].pc = Head(tasks[t].stack) ]_vars

C4_Witness ==
    \E t \in Tasks :
       /\ Occurs(tasks[t], "getContactsAsync threw")
       /\ tasks[t].pc = "pas_afterContacts"
       /\ syncStatus = "Contacts sync failed"

\* C5: files_last_sync is written only by passes whose file-info lookup
\* succeeded: a pass whose lookup threw writes no timestamp and raises the
\* "Sync Error" alert.
C5_FilesTimestampNeedsLookup ==
    \A t \in Tasks :
       Occurs(tasks[t], "getInfoAsync threw") =>
          /\ ~Occurs(tasks[t], "write:files_last_sync")
          /\ tasks[t].pc \in { "pas_afterFiles", "sf_afterSync" } =>
                Occurs(tasks[t], "alert:Sync Error: files")

\* C6: when requestContactsPermission obtains granted, the syncContacts it
\* awaits reads the contacts and does not signal "Permission Required";
\* when it obtains another status it reads no contacts.
C6_GrantThenSync ==
    \A t \in Tasks :
       tasks[t].op = "requestContactsPermission" =>
          /\ ( tasks[t].pc = "rcp_afterSync" /\ Occurs(tasks[t], "status:granted") ) =>
                /\ Occurs(tasks[t], "getContactsAsync")
                /\ ~Occurs(tasks[t], "alert:Permission Required")
          /\ Occurs(tasks[t], "status:other") =>
                ~Occurs(tasks[t], "getContactsAsync")

\* C7: when selectFolder obtains handle H, H is persisted under folder_uri
\* and the syncFiles it awaits looks up H itself, does not signal
\* "Folder Required", and writes files_last_sync.
C7_SelectThenSync ==
    \A t \in Tasks :
       ( tasks[t].op = "selectFolder" /\ Occurs(tasks[t], "picked") ) =>
          /\ tasks[t].pc = "gfd_wait" => tasks[t].uri = tasks[t].folderUri
          /\ tasks[t].pc = "sf_afterSync" =>
                /\ storage["folder_uri"] = tasks[t].folderUri
                /\ ~Occurs(tasks[t], "alert:Folder Required")
                /\ Occurs(tasks[t], "write:files_last_sync")

\* C8: performAutoSync called with permission denied and no folder performs
\* no contact read, no file-info lookup and no request, raises nothing and
\* writes no key of the store.
C8_NothingToSync ==
    [][ \A t \in Tasks :
          ( /\ ManualSyncInFlight(tasks[t])
            /\ tasks[t].cp = "denied"
            /\ tasks[t].uri = NoFolder
            /\ tasks[t].pc \in { "pas_start", "pas_afterContacts", "pas_afterFiles" } ) =>
             /\ storage' = storage
             /\ contacts' = contacts
             /\ files' = files
             /\ tasks'[t].log = <<>>
             /\ tasks'[t].pc \in { "pas_afterContacts", "pas_afterFiles",
                                   "pms_afterAuto" } ]_vars

C8_Witness ==
    \E t \in Tasks :
       /\ tasks[t].pc = "pms_afterAuto"
       /\ tasks[t].cp = "denied"
       /\ tasks[t].uri = NoFolder
       /\ tasks[t].log = <<>>

\* C9: in performAutoSync with permission granted and a folder set, when the
\* contact read throws the file-info lookup of syncFiles is still issued
\* afterwards, and performAutoSync returns to its caller.
C9_ContactsFailureDoesNotBlockFiles ==
    \A t \in Tasks :
       ( /\ tasks[t].cp = "granted"
         /\ tasks[t].uri # NoFolder
         /\ Occurs(tasks[t], "getContactsAsync threw") ) =>
          /\ tasks[t].pc \in { "pas_afterContacts", "sfl_start", "gfd_wait",
                               "sfl_afterList", "sfb_fetch_wait", "sfb_json_wait",
                               "sfl_afterSend", "sfl_store_wait", "pas_afterFiles",
                               "pms_afterAuto", "ia_finally", "done" }
          /\ tasks[t].pc \in { "pas_afterFiles", "pms_afterAuto", "ia_finally", "done" } =>
                \E i, j \in 1 .. Len(tasks[t].log) :
                   /\ i < j
                   /\ tasks[t].log[i] = "getContactsAsync threw"
                   /\ tasks[t].log[j] = "getInfoAsync"

C9_Witness ==
    \E t \in Tasks :
       /\ tasks[t].cp = "granted"
       /\ tasks[t].uri # NoFolder
       /\ Occurs(tasks[t], "getContactsAsync threw")
       /\ Occurs(tasks[t], "getInfoAsync")
       /\ tasks[t].pc = "pms_afterAuto"

\* C10: the loading flag is true in every state between the start and the
\* completion of performManualSync.
C10_LoadingWhileManualSync ==
    \A t \in Tasks : ManualSyncInFlight(tasks[t]) => isLoading

Quiescent == \A t \in Tasks : tasks[t].pc \in { "idle", "done", "retired" }

\* C11: every performManualSync in flight eventually completes, and whenever
\* a manual sync has completed and no operation is in flight the loading
\* flag is false.
C11_ManualSyncCompletes ==
    /\ (\E t \in UserTasks : ManualSyncInFlight(tasks[t]))
          ~> (\A t \in UserTasks : ~ManualSyncInFlight(tasks[t]))
    /\ [] ( ( /\ Quiescent
              /\ \E t \in UserTasks : tasks[t].op = "performManualSync" )
            => ~isLoading )

C11_Witness ==
    /\ Quiescent
    /\ \E t \in UserTasks : tasks[t].op = "performManualSync" /\ tasks[t].pc = "retired"
    /\ ~isLoading

Count(tk, e) == Cardinality({ i \in 1 .. Len(tk.log) : tk.log[i] = e })

\* C12: when performManualSync completes the status is "Manual sync
\* completed!" if no attempted domain's local read threw, and "Manual sync
\* failed" if one did.
C12_ManualSyncOutcomeMessage ==
    \A t \in UserTasks :
       ( tasks[t].op = "performManualSync" /\ tasks[t].pc = "done" ) =>
          IF \/ Occurs(tasks[t], "getContactsAsync threw")
             \/ Occurs(tasks[t], "getInfoAsync threw")
          THEN syncStatus = "Manual sync failed"
          ELSE syncStatus = "Manual sync completed!"

ContactsOnlyManualSync(tk) ==
    tk.op = "performManualSync" /\ tk.cp = "granted" /\ tk.uri = NoFolder

\* C13 as stated: with permission granted and no folder a manual sync does
\* one contact read and no file-info lookup, writes contacts_last_sync,
\* leaves folder_uri and files_last_sync absent, signals no "Folder
\* Required" and completes with "Manual sync completed!".
C13_ContactsOnlyAlwaysWrites ==
    \A t \in UserTasks :
       ( ContactsOnlyManualSync(tasks[t]) /\ tasks[t].pc = "done" ) =>
          /\ Count(tasks[t], "getContactsAsync") = 1
          /\ ~Occurs(tasks[t], "getInfoAsync")
          /\ Occurs(tasks[t], "write:contacts_last_sync")
          /\ storage["folder_uri"] = NoFolder
          /\ storage["files_last_sync"] = NoTime
          /\ ~Occurs(tasks[t], "alert:Folder Required")
          /\ syncStatus = "Manual sync completed!"

\* C13 amended: with permission granted and no folder, no step of a manual
\* sync changes folder_uri or files_last_sync; when it completes it has done
\* one contact read and no file-info lookup, has written contacts_last_sync
\* exactly when that read succeeded, has signalled no "Folder Required", the
\* status is "Manual sync completed!", and if no other operation was
\* started folder_uri and files_last_sync are absent.
C13_ContactsOnly ==
    [][ \A t \in UserTasks :
          ( ContactsOnlyManualSync(tasks[t]) /\ tasks'[t] # tasks[t] ) =>
             /\ storage'["folder_uri"] = storage["folder_uri"]
             /\ storage'["files_last_sync"] = storage["files_last_sync"]
             /\ tasks'[t].pc = "done" =>
                   /\ Count(tasks'[t], "getContactsAsync") = 1
                   /\ ~Occurs(tasks'[t], "getInfoAsync")
                   /\ Occurs(tasks'[t], "write:contacts_last_sync")
                         <=> ~Occurs(tasks'[t], "getContactsAsync threw")
                   /\ ~Occurs(tasks'[t], "alert:Folder Required")
                   /\ syncStatus' = "Manual sync completed!"
                   /\ (\A u \in UserTasks \ {t} : tasks[u].pc = "idle") =>
                         /\ storage'["folder_uri"] = NoFolder
                         /\ storage'["files_last_sync"] = NoTime ]_vars

C13_Witness ==
    \E t \in UserTasks :
       /\ ContactsOnlyManualSync(tasks[t])
       /\ tasks[t].pc = "done"
       /\ Occurs(tasks[t], "write:contacts_last_sync")
       /\ storage["contacts_last_sync"] # NoTime

\* name is what follows the last "/" of uri (all of uri if it has none)
IsLastSegmentOf(name, uri) ==
    \E k \in 0 .. Len(uri) :
       /\ name = SubSeq(uri, k + 1, Len(uri))
       /\ \A i \in 1 .. Len(name) : name[i] # "/"
       /\ k = 0 \/ uri[k] = "/"

SingleEntryFor(list, uri) ==
    /\ Len(list) = 1
    /\ list[1].uri = uri
    /\ IsLastSegmentOf(list[1].name, uri)

FilesOnlyManualSync(tk) ==
    tk.op = "performManualSync" /\ tk.cp = "denied" /\ tk.uri # NoFolder

\* C14 as stated: for every handle H the listing syncFiles resolved is
\* exactly one entry, located at H and named by the last path segment of H;
\* a manual sync with permission denied and H set reads no contacts.
C14_AlwaysSingleEntry ==
    \A t \in Tasks :
       /\ tasks[t].pc = "sfl_afterList" =>
             SingleEntryFor(tasks[t].fileList, tasks[t].uri)
       /\ FilesOnlyManualSync(tasks[t]) => ~Occurs(tasks[t], "getContactsAsync")

\* C14 amended: the listing syncFiles resolved for H is stored in memory and
\* submitted as it is; it is exactly one entry, located at H and named by
\* the last path segment of H, when the lookup reported that H exists, and
\* empty when it reported that H does not exist or threw; a manual sync with
\* permission denied and H set reads no contacts and looks up H.
C14_Listing ==
    [][ \A t \in Tasks :
          /\ ( tasks[t].pc = "sfl_afterList" /\ tasks'[t] # tasks[t] ) =>
                /\ files' = tasks[t].fileList
                /\ tasks'[t].postedFiles = Append(tasks[t].postedFiles, tasks[t].fileList)
                /\ IF Occurs(tasks[t], "getInfoAsync exists")
                   THEN SingleEntryFor(tasks[t].fileList, tasks[t].uri)
                   ELSE tasks[t].fileList = <<>>
          /\ FilesOnlyManualSync(tasks'[t]) =>
                /\ ~Occurs(tasks'[t], "getContactsAsync")
                /\ tasks'[t].pc = "done" => Count(tasks'[t], "getInfoAsync") = 1 ]_vars

C14_Witness ==
    \E t \in Tasks :
       /\ FilesOnlyManualSync(tasks[t])
       /\ tasks[t].pc = "sfb_fetch_wait"
       /\ SingleEntryFor(files, tasks[t].uri)
       /\ tasks[t].postedFiles = << files >>

ContactsEvents ==
    { "getContactsAsync", "getContactsAsync threw", "POST /sync-contacts",
      "contacts:fetch:ok", "contacts:fetch:non2xx", "contacts:fetch:throw",
      "contacts:json:ok", "contacts:json:throw", "write:contacts_last_sync",
      "alert:Sync Error: contacts", "alert:Permission Required" }

FilesEvents ==
    { "getInfoAsync", "getInfoAsync threw", "getInfoAsync exists",
      "getInfoAsync missing", "POST /sync-files",
      "files:fetch:ok", "files:fetch:non2xx", "files:fetch:throw",
      "files:json:ok", "files:json:throw", "write:files_last_sync",
      "alert:Sync Error: files", "alert:Folder Required" }

\* the contacts pass of the task has ended: timestamp written or failure handled
ContactsPassEnded(tk) ==
    \/ Occurs(tk, "write:contacts_last_sync")
    \/ Occurs(tk, "alert:Sync Error: contacts")
    \/ Occurs(tk, "alert:Permission Required")

\* C15: in a task that runs performAutoSync no step of the contacts sync
\* follows a step of the files sync, and once the files sync has taken a
\* step the contacts sync, if it ran, has ended.
C15_ContactsBeforeFiles ==
    \A t \in Tasks :
       tasks[t].op \in { "performManualSync", "initializeApp" } =>
          /\ \A i, j \in 1 .. Len(tasks[t].log) :
                ( i < j /\ tasks[t].log[i] \in FilesEvents ) =>
                   tasks[t].log[j] \notin ContactsEvents
          /\ ( \/ tasks[t].pc \in { "sfl_start", "gfd_wait", "sfl_afterList",
                                   "sfb_fetch_wait", "sfb_json_wait",
                                   "sfl_afterSend", "sfl_store_wait" }
               \/ \E i \in 1 .. Len(tasks[t].log) : tasks[t].log[i] \in FilesEvents ) =>
                ( Occurs(tasks[t], "getContactsAsync") => ContactsPassEnded(tasks[t]) )

C15_Witness ==
    \E t \in Tasks :
       /\ tasks[t].op = "performManualSync"
       /\ Occurs(tasks[t], "write:contacts_last_sync")
       /\ Occurs(tasks[t], "write:files_last_sync")

Index(tk, e) == CHOOSE i \in 1 .. Len(tk.log) : tk.log[i] = e

PostSettled(tk, d) ==
    { i \in 1 .. Len(tk.log) :
         tk.log[i] \in { d \o ":fetch:non2xx", d \o ":fetch:throw",
                         d \o ":json:ok", d \o ":json:throw" } }

\* C16: in a task, each domain's pass reads once, then posts once exactly
\* the snapshot read, then writes the domain's timestamp once, after the
\* POST attempt has settled; a pass that posted and returned has written.
C16_ReadPostPersist ==
    \A t \in Tasks :
       /\ Count(tasks[t], "getContactsAsync") <= 1
       /\ Count(tasks[t], "POST /sync-contacts") <= 1
       /\ Count(tasks[t], "write:contacts_last_sync") <= 1
       /\ Len(tasks[t].postedContacts) = Count(tasks[t], "POST /sync-contacts")
       /\ Occurs(tasks[t], "POST /sync-contacts") =>
             /\ tasks[t].postedContacts = << tasks[t].data >>
             /\ Index(tasks[t], "getContactsAsync") < Index(tasks[t], "POST /sync-contacts")
       /\ Occurs(tasks[t], "write:contacts_last_sync") =>
             \E i \in PostSettled(tasks[t], "contacts") :
                /\ Index(tasks[t], "POST /sync-contacts") < i
                /\ i < Index(tasks[t], "write:contacts_last_sync")
       /\ ( /\ tasks[t].pc \in { "pas_afterContacts", "rcp_afterSync" }
            /\ Occurs(tasks[t], "POST /sync-contacts") ) =>
             Occurs(tasks[t], "write:contacts_last_sync")
       /\ Count(tasks[t], "getInfoAsync") <= 1
       /\ Count(tasks[t], "POST /sync-files") <= 1
       /\ Count(tasks[t], "write:files_last_sync") <= 1
       /\ Len(tasks[t].postedFiles) = Count(tasks[t], "POST /sync-files")
       /\ Occurs(tasks[t], "POST /sync-files") =>
             /\ tasks[t].postedFiles = << tasks[t].fileList >>
             /\ Index(tasks[t], "getInfoAsync") < Index(tasks[t], "POST /sync-files")
       /\ Occurs(tasks[t], "write:files_last_sync") =>
             \E i \in PostSettled(tasks[t], "files") :
                /\ Index(tasks[t], "POST /sync-files") < i
                /\ i < Index(tasks[t], "write:files_last_sync")
       /\ ( /\ tasks[t].pc \in { "pas_afterFiles", "sf_afterSync" }
            /\ Occurs(tasks[t], "POST /sync-files") ) =>
             Occurs(tasks[t], "write:files_last_sync")

C16_Witness ==
    \E t \in Tasks :
       /\ tasks[t].pc = "pas_afterContacts"
       /\ tasks[t].data = << "c1" >>
       /\ tasks[t].postedContacts = << << "c1" >> >>
       /\ Occurs(tasks[t], "write:contacts_last_sync")

\* C17: a step changes a key of the store only as follows: the store step
\* of syncContacts changes at most contacts_last_sync, the store step of
\* syncFiles at most files_last_sync, the store step of selectFolder at
\* most folder_uri; every other step (initialization, rejected or failed
\* syncs, timers) changes no key.
C17_OwnKeyOnly ==
    [][ \A k \in STORAGE_KEYS :
          storage'[k] # storage[k] =>
             \E t \in Tasks :
                /\ tasks'[t] # tasks[t]
                /\ \/ k = "contacts_last_sync" /\ tasks[t].pc = "sc_store_wait"
                   \/ k = "files_last_sync" /\ tasks[t].pc = "sfl_store_wait"
                   \/ k = "folder_uri" /\ tasks[t].pc = "sf_store_wait"
                      /\ tasks[t].op = "selectFolder" ]_vars

C17_Witness ==
    \E t \in Tasks :
       /\ tasks[t].op = "selectFolder"
       /\ Occurs(tasks[t], "write:folder_uri")
       /\ Occurs(tasks[t], "write:files_last_sync")
       /\ storage["contacts_last_sync"] = NoTime

\* C18: at most one performManualSync is in flight, and whenever one is in
\* flight and the event loop can take a press, the trigger is disabled
\* (isLoading is true).
C18_SingleManualSync ==
    /\ \A t, u \in Tasks :
          ( ManualSyncInFlight(tasks[t]) /\ ManualSyncInFlight(tasks[u]) ) => t = u
    /\ \A t \in Tasks :
          ( ManualSyncInFlight(tasks[t]) /\ NoContinuationReady ) => isLoading

FinalMessages ==
    { "Contacts synced successfully!", "Contacts sync failed",
      "Files synced successfully!", "Files sync failed",
      "Manual sync completed!", "Manual sync failed" }

\* C19: a displayed final status message is cleared only by the timer that
\* was scheduled together with it, which is the last timer scheduled.
C19_ClearedByOwnTimerOnly ==
    [][ ( /\ timers # <<>>
          /\ timers' = Tail(timers)
          /\ syncStatus \in FinalMessages ) =>
           ( Len(timers) = 1 /\ Head(timers) = syncStatus ) ]_vars

\* C20: when initializeApp is about to clear the loading flag with
\* permission granted and a folder handle loaded, it has run performAutoSync:
\* the contacts sync, then the files sync.
C20_LaunchAutoSync ==
    \A t \in Tasks :
       ( /\ tasks[t].op = "initializeApp"
         /\ tasks[t].pc = "ia_finally"
         /\ contactsPermission = "granted"
         /\ selectedFolderUri # NoFolder ) =>
          /\ Occurs(tasks[t], "getContactsAsync")
          /\ Occurs(tasks[t], "getInfoAsync")

====
